---- MODULE Spec2Model ----
(***************************************************************************)
(* The admission-controlled concurrent insertion pipeline of              *)
(* tsvToMYSQLTiDB, in its two variants:                                    *)
(*   "plain"  = src/tsvToMYSQLTiDB.go  (plain int counters)                *)
(*   "upsert" = src/unnamed/part_000   (int64 counters, sync/atomic,       *)
(*                                      ON DUPLICATE KEY UPDATE)           *)
(* Goroutines: main (the producer), one insert goroutine per data record, *)
(* the connection controller (the collector).  The status logger only     *)
(* reads the counters and writes to the log; it has no state of its own   *)
(* and is left out.                                                        *)
(* Strings are sequences of string pieces; "+" on strings is \o.           *)
(***************************************************************************)
EXTENDS Integers, Sequences, FiniteSets, TLC

\* ------------------------------------------------------------------ bounds
MaxRecords == 2      \* data rows in the input, at most
MaxConns   == 2      \* values of the -conns flag explored: 0..MaxConns
MaxFields  == 2      \* fields of a record handed to the two functions on their own

\* make(chan int, 1024)
CallbackCap == 1024

Variants == {"plain", "upsert"}

\* value of the -table flag
TABLENAME == "t"

\* the header lines and the data lines the input is drawn from.  A field
\* with a bare quote in it is a parse error unless reader.LazyQuotes is set;
\* a row whose field count differs from the first row's is always one.
BareQuote == "na\"me"
Headers  == { <<"id", "name">>, <<"id", BareQuote>> }
DataRows == { <<"1", "NULL">>, <<"2", BareQuote>>, <<"3">> }

RECURSIVE SeqsUpTo(_, _)
SeqsUpTo(S, n) ==
    IF n = 0 THEN { <<>> }
    ELSE LET shorter == SeqsUpTo(S, n - 1)
         IN  shorter \cup { Append(s, x) : s \in { t \in shorter : Len(t) = n - 1 }, x \in S }

\* stdin: empty, or a header line followed by at most MaxRecords data lines.
\* The reader stops at the first line it rejects, so no input carries lines
\* after a data line of the wrong field count.  The header with the bare
\* quote is tried on its own.
DataFor(h) ==
    { e \in SeqsUpTo(DataRows, MaxRecords) :
        /\ \A k \in 1..Len(e) : Len(e[k]) # Len(h) => k = Len(e)
        /\ h[2] = BareQuote => e = <<>> }
Inputs == { <<>> } \cup UNION { { <<h>> \o d : d \in DataFor(h) } : h \in Headers }

\* ------------------------------------------------------------------ state
VARIABLES
    variant,        \* which of the two programs runs
    MAX_SQL_CONNECTIONS,   \* -conns
    ON_DUP_KEYS_UPDATE,    \* -enable_update (upsert variant only)
    input,          \* the lines on stdin
    pos,            \* lines the csv reader has consumed
    record,         \* main: the record returned by the last reader.Read()
    query,          \* main: the statement
    isFirstRow,     \* main
    id,             \* main: the sequence number counter
    mainpc,         \* main: position
    mtmp,           \* main: the value read by `connections += 1` (0 when dead)
    available,      \* tokens in the channel `available` (all are `true`)
    callback,       \* the channel `callback`, a FIFO of ints
    connections, insertions, fails,   \* the shared counters
    wg,             \* the WaitGroup counter
    workers,        \* the insert goroutines, in dispatch order
    cpc, cid, ctmp, \* collector: position, received id, value read by `*connections -= 1`
                    \* (both 0 when dead)
    exit,           \* "running", "fatal_read" / "fatal_prepare" (log.Fatal in main /
                    \* in insert) or "returned" (main returned)
    repInsertions, repValid,   \* the two numbers of the final Status line
    queryWrites,    \* history: assignments made to query
    released,       \* history: tokens the collector has put back
    fnPc, fnArgs    \* a single call of repalceNULLByDEFAULT / parseColumns on its own:
                    \* position ("none" while the pipeline runs) and the slice returned

mainVars   == <<pos, record, query, isFirstRow, id, mainpc, mtmp, repInsertions, repValid, queryWrites>>
configVars == <<variant, MAX_SQL_CONNECTIONS, ON_DUP_KEYS_UPDATE, input>>
collVars   == <<cpc, cid, ctmp, released>>
callVars   == <<fnPc, fnArgs>>
vars == <<variant, MAX_SQL_CONNECTIONS, ON_DUP_KEYS_UPDATE, input, pos, record, query,
          isFirstRow, id, mainpc, mtmp, available, callback, connections, insertions,
          fails, wg, workers, cpc, cid, ctmp, exit, repInsertions, repValid,
          queryWrites, released, fnPc, fnArgs>>

Running == exit = "running"

\* ------------------------------------------------------------ pure functions

\* []interface{}: nil or a string
Nil      == [isNil |-> TRUE,  val |-> ""]
Str(v)   == [isNil |-> FALSE, val |-> v]

\* repalceNULLByDEFAULT as it would be if the comparison ignored case
repalceNULLIgnoreCase(s) ==
    [k \in 1..Len(s) |-> IF s[k] \in {"NULL", "null"} THEN Nil ELSE Str(s[k])]

repalceNULLByDEFAULT(s) ==
    [k \in 1..Len(s) |-> IF s[k] = "NULL" THEN Nil ELSE Str(s[k])]

RECURSIVE QueryCols(_, _)
\* the loop's effect on *query for columns i..Len(columns)
QueryCols(columns, i) ==
    IF i > Len(columns) THEN <<>>
    ELSE (IF i = 1 THEN <<columns[i]>> ELSE <<", ", columns[i]>>) \o QueryCols(columns, i + 1)

RECURSIVE PlaceholdersShort(_, _)
\* Placeholders as it would be if the loop stopped one column early
PlaceholdersShort(columns, i) ==
    IF i >= Len(columns) THEN <<>>
    ELSE (IF i = 1 THEN <<"?">> ELSE <<", ", "?">>) \o PlaceholdersShort(columns, i + 1)

RECURSIVE Placeholders(_, _)
\* the loop's effect on placeholder
Placeholders(columns, i) ==
    IF i > Len(columns) THEN <<>>
    ELSE (IF i = 1 THEN <<"?">> ELSE <<", ", "?">>) \o Placeholders(columns, i + 1)

RECURSIVE Updates(_, _)
\* the loop's effect on update (upsert variant)
Updates(columns, i) ==
    IF i > Len(columns) THEN <<>>
    ELSE (IF i = 1 THEN <<columns[i], "=VALUES(", columns[i], ")">>
                   ELSE <<", ", columns[i], "=VALUES(", columns[i], ")">>)
         \o Updates(columns, i + 1)

\* the value parseColumns leaves in *query
parseColumns(v, upd, columns) ==
    LET placeholder == <<"VALUES (">> \o Placeholders(columns, 1) \o <<")">>
        update      == <<"ON DUPLICATE KEY UPDATE ">> \o Updates(columns, 1)
        q           == <<"INSERT INTO ", TABLENAME, " (">> \o QueryCols(columns, 1)
                       \o <<") ">> \o placeholder
    IN  IF v = "upsert" /\ upd THEN q \o update ELSE q

\* encoding/csv as configured by main: the error reader.Read() returns for
\* line n of the input, if any
HasBareQuote(row) == \E k \in 1..Len(row) : row[k] = BareQuote
LazyQuotes(v) == v = "upsert"
ReadError(v, in, n) ==
    \/ Len(in[n]) # Len(in[1])
    \/ HasBareQuote(in[n]) /\ ~LazyQuotes(v)

\* the field values the two functions are tried on
FieldValues == { "NULL", "", "null", "NULLs", "id" }

\* a record as the csv reader returns it: at least one field
Records == { r \in SeqsUpTo(FieldValues, MaxFields) : Len(r) >= 1 }

\* ------------------------------------------------------------------ Init
Init ==
    /\ variant \in Variants
    /\ MAX_SQL_CONNECTIONS \in 0..MaxConns
    /\ ON_DUP_KEYS_UPDATE \in (IF variant = "upsert" THEN BOOLEAN ELSE {FALSE})
    /\ input \in Inputs
    /\ pos = 0
    /\ record = <<>>
    /\ query = <<>>
    /\ isFirstRow = TRUE
    /\ id = IF variant = "plain" THEN 1 ELSE -1
    /\ mainpc = "read"
    /\ mtmp = 0
    /\ available = MAX_SQL_CONNECTIONS
    /\ callback = <<>>
    /\ connections = 0
    /\ insertions = 0
    /\ fails = 0
    /\ wg = 0
    /\ workers = <<>>
    /\ cpc = "inc"
    /\ cid = 0
    /\ ctmp = 0
    /\ exit = "running"
    /\ repInsertions = 0
    /\ repValid = 0
    /\ queryWrites = 0
    /\ released = 0
    /\ fnPc = "none"
    /\ fnArgs = <<>>

\* ------------------------------------------------------------------ main
\* reader.Read() returns io.EOF: break
MainReadEOF ==
    /\ Running /\ mainpc = "read"
    /\ pos = Len(input)
    /\ mainpc' = "wait"
    /\ UNCHANGED <<configVars, callVars, pos, record, query, isFirstRow, id, mtmp, available, callback,
                   connections, insertions, fails, wg, workers, collVars, exit,
                   repInsertions, repValid, queryWrites>>

\* MainReadError as it would be if the rejected line were logged and skipped
MainReadErrorSkip ==
    /\ Running /\ mainpc = "read"
    /\ pos < Len(input)
    /\ ReadError(variant, input, pos + 1)
    /\ pos' = pos + 1
    /\ UNCHANGED <<configVars, callVars, record, query, isFirstRow, id, mainpc, mtmp, available,
                   callback, connections, insertions, fails, wg, workers, collVars, exit,
                   repInsertions, repValid, queryWrites>>

\* reader.Read() returns another error: log.Fatal
MainReadError ==
    /\ Running /\ mainpc = "read"
    /\ pos < Len(input)
    /\ ReadError(variant, input, pos + 1)
    /\ exit' = "fatal_read"
    /\ UNCHANGED <<configVars, callVars, mainVars, available, callback, connections, insertions,
                   fails, wg, workers, collVars>>

\* reader.Read() returns a record
MainReadRecord ==
    /\ Running /\ mainpc = "read"
    /\ pos < Len(input)
    /\ ~ReadError(variant, input, pos + 1)
    /\ record' = input[pos + 1]
    /\ pos' = pos + 1
    /\ mainpc' = "row"
    /\ UNCHANGED <<configVars, callVars, query, isFirstRow, id, mtmp, available, callback,
                   connections, insertions, fails, wg, workers, collVars, exit,
                   repInsertions, repValid, queryWrites>>

\* MainParseColumns as it would be if isFirstRow were not cleared
MainParseColumnsKeepFirst ==
    /\ Running /\ mainpc = "row"
    /\ isFirstRow
    /\ query' = parseColumns(variant, ON_DUP_KEYS_UPDATE, record)
    /\ queryWrites' = queryWrites + 1
    /\ mainpc' = "read"
    /\ UNCHANGED <<configVars, callVars, pos, record, isFirstRow, id, mtmp, available, callback,
                   connections, insertions, fails, wg, workers, collVars, exit,
                   repInsertions, repValid>>

\* if isFirstRow { parseColumns(record, &query); isFirstRow = false }
MainParseColumns ==
    /\ Running /\ mainpc = "row"
    /\ isFirstRow
    /\ query' = parseColumns(variant, ON_DUP_KEYS_UPDATE, record)
    /\ queryWrites' = queryWrites + 1
    /\ isFirstRow' = FALSE
    /\ mainpc' = "read"
    /\ UNCHANGED <<configVars, callVars, pos, record, id, mtmp, available, callback, connections,
                   insertions, fails, wg, workers, collVars, exit, repInsertions, repValid>>

\* the position of main after `<-available`
AfterAcquire(v) == IF v = "plain" THEN "conn_read" ELSE "dispatch"

\* MainAcquire as it would be if the receive did not wait for a token
MainAcquireNoBlock ==
    /\ Running /\ mainpc = "row"
    /\ ~isFirstRow
    /\ available' = IF available > 0 THEN available - 1 ELSE available
    /\ mainpc' = AfterAcquire(variant)
    /\ UNCHANGED <<configVars, callVars, pos, record, query, isFirstRow, id, mtmp, callback,
                   connections, insertions, fails, wg, workers, collVars, exit,
                   repInsertions, repValid, queryWrites>>

\* MainAcquire as it would be if a record were dropped when no token is there
MainAcquireOrSkip ==
    /\ Running /\ mainpc = "row"
    /\ ~isFirstRow
    /\ available' = IF available > 0 THEN available - 1 ELSE available
    /\ mainpc' = IF available > 0 THEN AfterAcquire(variant) ELSE "read"
    /\ UNCHANGED <<configVars, callVars, pos, record, query, isFirstRow, id, mtmp, callback,
                   connections, insertions, fails, wg, workers, collVars, exit,
                   repInsertions, repValid, queryWrites>>

\* else if <-available
MainAcquire ==
    /\ Running /\ mainpc = "row"
    /\ ~isFirstRow
    /\ available > 0
    /\ available' = available - 1
    /\ mainpc' = AfterAcquire(variant)
    /\ UNCHANGED <<configVars, callVars, pos, record, query, isFirstRow, id, mtmp, callback,
                   connections, insertions, fails, wg, workers, collVars, exit,
                   repInsertions, repValid, queryWrites>>

\* connections += 1 (plain variant): the read
MainConnRead ==
    /\ Running /\ mainpc = "conn_read"
    /\ mtmp' = connections
    /\ mainpc' = "conn_write"
    /\ UNCHANGED <<configVars, callVars, pos, record, query, isFirstRow, id, available, callback,
                   connections, insertions, fails, wg, workers, collVars, exit,
                   repInsertions, repValid, queryWrites>>

\* connections += 1 (plain variant): the write
MainConnWrite ==
    /\ Running /\ mainpc = "conn_write"
    /\ connections' = mtmp + 1
    /\ mtmp' = 0
    /\ mainpc' = "dispatch"
    /\ UNCHANGED <<configVars, callVars, pos, record, query, isFirstRow, id, available,
                   callback, insertions, fails, wg, workers, collVars, exit,
                   repInsertions, repValid, queryWrites>>

\* the first position of insert()
WorkerStart(v) == IF v = "plain" THEN "prepare" ELSE "add"

\* the goroutine `go insert(id, query, db, callback, &connections, &wg, args)` starts
NewWorker(v, i, q, rec) ==
    [pc |-> WorkerStart(v), id |-> i, query |-> q, args |-> repalceNULLByDEFAULT(rec),
     err |-> FALSE, out |-> 0]

\* MainDispatch as it would be if the sequence number were not advanced
MainDispatchSameId ==
    /\ Running /\ mainpc = "dispatch"
    /\ wg' = wg + 1
    /\ workers' = Append(workers, NewWorker(variant, id, query, record))
    /\ mainpc' = "read"
    /\ UNCHANGED <<configVars, callVars, pos, record, query, isFirstRow, id, mtmp, available,
                   callback, connections, insertions, fails, collVars, exit, repInsertions,
                   repValid, queryWrites>>

\* MainDispatch as it would be if wg.Add(1) were missing
MainDispatchNoAdd ==
    /\ Running /\ mainpc = "dispatch"
    /\ id' = id + 1
    /\ workers' = Append(workers, NewWorker(variant, id + 1, query, record))
    /\ mainpc' = "read"
    /\ UNCHANGED <<configVars, callVars, pos, record, query, isFirstRow, mtmp, available,
                   callback, connections, insertions, fails, wg, collVars, exit,
                   repInsertions, repValid, queryWrites>>

\* id += 1; wg.Add(1); args := repalceNULLByDEFAULT(record); go insert(...)
MainDispatch ==
    /\ Running /\ mainpc = "dispatch"
    /\ id' = id + 1
    /\ wg' = wg + 1
    /\ workers' = Append(workers, NewWorker(variant, id + 1, query, record))
    /\ mainpc' = "read"
    /\ UNCHANGED <<configVars, callVars, pos, record, query, isFirstRow, mtmp, available, callback,
                   connections, insertions, fails, collVars, exit, repInsertions,
                   repValid, queryWrites>>

\* wg.Wait() returns
MainWait ==
    /\ Running /\ mainpc = "wait"
    /\ wg = 0
    /\ mainpc' = "drain"
    /\ UNCHANGED <<configVars, callVars, pos, record, query, isFirstRow, id, mtmp, available, callback,
                   connections, insertions, fails, wg, workers, collVars, exit,
                   repInsertions, repValid, queryWrites>>

\* for ;len(callback) > 0; {}  is left
MainDrain ==
    /\ Running /\ mainpc = "drain"
    /\ Len(callback) = 0
    /\ mainpc' = "report"
    /\ UNCHANGED <<configVars, callVars, pos, record, query, isFirstRow, id, mtmp, available, callback,
                   connections, insertions, fails, wg, workers, collVars, exit,
                   repInsertions, repValid, queryWrites>>

\* log.Printf("Status: %d insertions, ...", insertions, ...): first argument
MainReportInsertions ==
    /\ Running /\ mainpc = "report"
    /\ repInsertions' = insertions
    /\ mainpc' = "report_valid"
    /\ UNCHANGED <<configVars, callVars, pos, record, query, isFirstRow, id, mtmp, available, callback,
                   connections, insertions, fails, wg, workers, collVars, exit,
                   repValid, queryWrites>>

\* ... second argument, insertions - fails
MainReportValid ==
    /\ Running /\ mainpc = "report_valid"
    /\ repValid' = insertions - fails
    /\ mainpc' = "return"
    /\ UNCHANGED <<configVars, callVars, pos, record, query, isFirstRow, id, mtmp, available, callback,
                   connections, insertions, fails, wg, workers, collVars, exit,
                   repInsertions, queryWrites>>

\* the QPS line is printed and main returns: the process ends
MainReturn ==
    /\ Running /\ mainpc = "return"
    /\ exit' = "returned"
    /\ UNCHANGED <<configVars, callVars, mainVars, available, callback, connections, insertions,
                   fails, wg, workers, collVars>>

\* ---------------------------------------------------------------- insert
SetWorker(i, f, x) == [workers EXCEPT ![i] = [@ EXCEPT ![f] = x]]
StepWorker(i, to)  == [workers EXCEPT ![i].pc = to]

\* atomic.AddInt64(connections, 1) (upsert variant)
WorkerAdd(i) ==
    /\ Running /\ workers[i].pc = "add"
    /\ connections' = connections + 1
    /\ workers' = StepWorker(i, "prepare")
    /\ UNCHANGED <<configVars, callVars, mainVars, available, callback, insertions, fails, wg,
                   collVars, exit>>

\* db.Prepare(query) returns a statement
WorkerPrepare(i) ==
    /\ Running /\ workers[i].pc = "prepare"
    /\ workers' = StepWorker(i, "exec")
    /\ UNCHANGED <<configVars, callVars, mainVars, available, callback, connections, insertions,
                   fails, wg, collVars, exit>>

\* db.Prepare(query) returns an error: log.Fatal
WorkerPrepareError(i) ==
    /\ Running /\ workers[i].pc = "prepare"
    /\ exit' = "fatal_prepare"
    /\ UNCHANGED <<configVars, callVars, mainVars, available, callback, connections, insertions,
                   fails, wg, workers, collVars>>

\* the int insert() sends on callback for sequence number n
Outcome(n, err) == IF err THEN -n ELSE n

\* the position of insert() after stmt.Exec
AfterExec(v) == IF v = "plain" THEN "send" ELSE "sub"

\* stmt.Exec(args...) returns, with or without an error
WorkerExec(i) ==
    /\ Running /\ workers[i].pc = "exec"
    /\ \E err \in BOOLEAN :
         workers' = [workers EXCEPT ![i] = [@ EXCEPT !.err = err,
                                                     !.out = Outcome(workers[i].id, err),
                                                     !.pc  = AfterExec(variant)]]
    /\ UNCHANGED <<configVars, callVars, mainVars, available, callback, connections, insertions,
                   fails, wg, collVars, exit>>

\* atomic.AddInt64(connections, -1) (upsert variant)
WorkerSub(i) ==
    /\ Running /\ workers[i].pc = "sub"
    /\ connections' = connections - 1
    /\ workers' = StepWorker(i, "send")
    /\ UNCHANGED <<configVars, callVars, mainVars, available, callback, insertions, fails, wg,
                   collVars, exit>>

\* WorkerSend as it would be if insert put the token back itself
WorkerSendRelease(i) ==
    /\ Running /\ workers[i].pc = "send"
    /\ Len(callback) < CallbackCap
    /\ callback' = Append(callback, workers[i].out)
    /\ available' = available + 1
    /\ workers' = StepWorker(i, "close")
    /\ UNCHANGED <<configVars, callVars, mainVars, connections, insertions, fails, wg,
                   collVars, exit>>

\* callback <- id  (callback <- -id); blocks while the channel is full
WorkerSend(i) ==
    /\ Running /\ workers[i].pc = "send"
    /\ Len(callback) < CallbackCap
    /\ callback' = Append(callback, workers[i].out)
    /\ workers' = StepWorker(i, "close")
    /\ UNCHANGED <<configVars, callVars, mainVars, available, connections, insertions, fails, wg,
                   collVars, exit>>

\* return: the deferred stmt.Close() runs first
WorkerClose(i) ==
    /\ Running /\ workers[i].pc = "close"
    /\ workers' = StepWorker(i, "done")
    /\ UNCHANGED <<configVars, callVars, mainVars, available, callback, connections, insertions,
                   fails, wg, collVars, exit>>

\* then the deferred wg.Done()
WorkerDone(i) ==
    /\ Running /\ workers[i].pc = "done"
    /\ wg' = wg - 1
    /\ workers' = StepWorker(i, "end")
    /\ UNCHANGED <<configVars, callVars, mainVars, available, callback, connections, insertions,
                   fails, collVars, exit>>

\* ------------------------------------------------- startConnectionController
\* CollInc as it would be if the increment of insertions were missing
CollIncMissing ==
    /\ Running /\ cpc = "inc"
    /\ cpc' = "recv"
    /\ UNCHANGED <<configVars, callVars, mainVars, available, callback, connections, insertions,
                   fails, wg, workers, cid, ctmp, released, exit>>

\* *insertions += 1  (atomic.AddInt64(insertions, 1)); the collector is the
\* only writer of insertions
CollInc ==
    /\ Running /\ cpc = "inc"
    /\ insertions' = insertions + 1
    /\ cpc' = "recv"
    /\ UNCHANGED <<configVars, callVars, mainVars, available, callback, connections, fails, wg,
                   workers, cid, ctmp, released, exit>>

\* id := <-callback
CollRecv ==
    /\ Running /\ cpc = "recv"
    /\ callback # <<>>
    /\ cid' = Head(callback)
    /\ callback' = Tail(callback)
    /\ cpc' = "check"
    /\ UNCHANGED <<configVars, callVars, mainVars, available, connections, insertions, fails, wg,
                   workers, ctmp, released, exit>>

\* if (id<0)
IsFailure(n) == n < 0

\* the position of the collector after the if
AfterCheck(v) == IF v = "plain" THEN "dec_read" ELSE "release"

\* if (id<0) { *fails += 1 }; the collector is the only writer of fails
CollCheck ==
    /\ Running /\ cpc = "check"
    /\ fails' = IF IsFailure(cid) THEN fails + 1 ELSE fails
    /\ cpc' = AfterCheck(variant)
    /\ UNCHANGED <<configVars, callVars, mainVars, available, callback, connections, insertions, wg,
                   workers, cid, ctmp, released, exit>>

\* *connections -= 1 (plain variant): the read
CollDecRead ==
    /\ Running /\ cpc = "dec_read"
    /\ ctmp' = connections
    /\ cpc' = "dec_write"
    /\ UNCHANGED <<configVars, callVars, mainVars, available, callback, connections, insertions,
                   fails, wg, workers, cid, released, exit>>

\* *connections -= 1 (plain variant): the write
CollDecWrite ==
    /\ Running /\ cpc = "dec_write"
    /\ connections' = ctmp - 1
    /\ ctmp' = 0
    /\ cpc' = "release"
    /\ UNCHANGED <<configVars, callVars, mainVars, available, callback, insertions, fails, wg,
                   workers, cid, released, exit>>

\* available <- true; blocks while the channel holds MAX_SQL_CONNECTIONS tokens
CollRelease ==
    /\ Running /\ cpc = "release"
    /\ available < MAX_SQL_CONNECTIONS
    /\ available' = available + 1
    /\ released' = released + 1
    /\ cid' = 0
    /\ cpc' = "inc"
    /\ UNCHANGED <<configVars, callVars, mainVars, callback, connections, insertions, fails, wg,
                   workers, ctmp, exit>>

\* ------------------------------------------------------------------ Next
Next ==
    \/ MainReadEOF
    \/ MainReadError
    \/ MainReadRecord
    \/ MainParseColumns
    \/ MainAcquire
    \/ MainConnRead
    \/ MainConnWrite
    \/ MainDispatch
    \/ MainWait
    \/ MainDrain
    \/ MainReportInsertions
    \/ MainReportValid
    \/ MainReturn
    \/ \E i \in 1..Len(workers) : WorkerAdd(i)
    \/ \E i \in 1..Len(workers) : WorkerPrepare(i)
    \/ \E i \in 1..Len(workers) : WorkerPrepareError(i)
    \/ \E i \in 1..Len(workers) : WorkerExec(i)
    \/ \E i \in 1..Len(workers) : WorkerSub(i)
    \/ \E i \in 1..Len(workers) : WorkerSend(i)
    \/ \E i \in 1..Len(workers) : WorkerClose(i)
    \/ \E i \in 1..Len(workers) : WorkerDone(i)
    \/ CollInc
    \/ CollRecv
    \/ CollCheck
    \/ CollDecRead
    \/ CollDecWrite
    \/ CollRelease

Spec == Init /\ [][Next]_vars

\* ------------------------------------------------------ views of the state
\* data records the reader has returned (the header is the first record)
DataRecordsRead == IF pos = 0 THEN 0 ELSE pos - 1

\* insert goroutine i has executed its send on callback
HasSent(i) == workers[i].pc \in {"close", "done", "end"}

\* insert goroutine i holds a statement: db.Prepare returned, stmt.Close has not run
HoldsStmt(i) == workers[i].pc \in {"exec", "sub", "send", "close"}
OpenStmts == Cardinality({ i \in 1..Len(workers) : HoldsStmt(i) })

\* the collector has received an id and not yet finished the loop body for it
CollectorHolds == cpc \in {"check", "dec_read", "dec_write", "release"}

\* ids sent on callback so far: still queued, or received by the collector
OutcomesSent == Len(callback) + released + (IF CollectorHolds THEN 1 ELSE 0)

\* the insert goroutines whose stmt.Exec returned an error
FailedTasks == { i \in 1..Len(workers) : workers[i].err }

\* tasks dispatched whose token the collector has not put back
InFlight == Len(workers) - released

\* every outcome has been processed by the collector
AllProcessed ==
    /\ \A i \in 1..Len(workers) : HasSent(i)
    /\ callback = <<>>
    /\ ~CollectorHolds

\* main has read the counter for the final Status line
ReportedInsertions == mainpc \in {"report_valid", "return"}

\* ------------------------------------------------------------------ claims

\* C1: when main computes the final report (after wg.Wait() and the drain
\* loop), with -conns >= 1, the insertions counter it reads equals the number
\* of data records read.
C1_InsertionsEqualRecords ==
    (MAX_SQL_CONNECTIONS >= 1 /\ ReportedInsertions) => repInsertions = DataRecordsRead

\* C2: in every reachable state 0 <= connections <= MAX_SQL_CONNECTIONS.
C2_ConnectionsWithinBounds ==
    connections >= 0 /\ connections <= MAX_SQL_CONNECTIONS

\* C3: at every instant the tasks dispatched whose token has not been put
\* back by the collector number at most MAX_SQL_CONNECTIONS.
C3_InFlightAtMostN == InFlight <= MAX_SQL_CONNECTIONS

\* C3 witness: the bound is met: N >= 1 tasks are in flight and the producer,
\* holding the next data record, is blocked on the empty channel `available`.
C3_Witness ==
    /\ MAX_SQL_CONNECTIONS >= 1
    /\ InFlight = MAX_SQL_CONNECTIONS
    /\ mainpc = "row" /\ ~isFirstRow /\ available = 0

\* C4: once every outcome has been processed, fails equals the number of
\* tasks whose execution failed (every failure is told from a success and
\* counted exactly once, whatever its sequence number).
C4_FailsCountsFailures ==
    AllProcessed => fails = Cardinality(FailedTasks)

\* C5: a failure inside an insert goroutine never aborts the run, and each
\* goroutine past its send has reported exactly one outcome: the process is
\* ended by log.Fatal only in main, on a line the reader rejects.
C5_WorkerFailureNeverAborts ==
    /\ exit \in {"fatal_read", "fatal_prepare"} =>
         /\ exit = "fatal_read"
         /\ mainpc = "read" /\ pos < Len(input) /\ ReadError(variant, input, pos + 1)
    /\ OutcomesSent = Cardinality({ i \in 1..Len(workers) : HasSent(i) })

\* C6: a malformed record stops the run at once: main never gets past the
\* line the reader rejects (nothing is dispatched, joined or reported after
\* it), the process does nothing once it has ended, the report is never
\* started after log.Fatal, and at end of stream main goes on to wg.Wait()
\* and never to log.Fatal.
C6_MalformedRecordStopsRun ==
    [][ /\ (mainpc = "read" /\ pos < Len(input) /\ ReadError(variant, input, pos + 1))
            => /\ mainpc' = "read" /\ pos' = pos /\ Len(workers') = Len(workers)
               /\ repInsertions' = 0 /\ repValid' = 0
        /\ exit # "running" => UNCHANGED vars
        /\ exit' = "fatal_read"
            => /\ mainpc' = "read" /\ pos' < Len(input')
               /\ ReadError(variant', input', pos' + 1)
        /\ (mainpc = "read" /\ pos = Len(input))
            => /\ exit' # "fatal_read"
               /\ mainpc' \in {"read", "wait"}
        /\ (mainpc = "wait" /\ mainpc' # "wait") => (mainpc' = "drain" /\ wg = 0)
        /\ (mainpc = "drain" /\ mainpc' # "drain") => mainpc' = "report"
      ]_vars

\* C6 witness: log.Fatal on a malformed data row while an insert goroutine
\* is still running.
C6_Witness ==
    /\ exit = "fatal_read"
    /\ pos >= 2
    /\ \E i \in 1..Len(workers) : workers[i].pc # "end"

\* C7: main reads the counters for the final report only when every insert
\* goroutine has finished and the collector holds no outcome whose updates
\* it has not applied.
C7_ReportAfterFullDrain ==
    [][ (mainpc \in {"report", "report_valid"} /\ mainpc' # mainpc)
            => /\ \A i \in 1..Len(workers) : workers[i].pc = "end"
               /\ callback = <<>>
               /\ ~CollectorHolds
      ]_vars

\* C8: at every instant at most MAX_SQL_CONNECTIONS prepared statements are
\* open (prepared and not yet closed).
C8_OpenStatementsAtMostN == OpenStmts <= MAX_SQL_CONNECTIONS

\* C9: query is assigned at most once, from the first record read, before
\* any insert goroutine is started, and never changes afterwards; every
\* insert goroutine is started with that value, never with the empty one.
C9_StatementBuiltOnce ==
    [][ /\ query' # query
            => /\ query = <<>> /\ queryWrites = 0 /\ Len(workers) = 0
               /\ query' = parseColumns(variant, ON_DUP_KEYS_UPDATE, input[1])
        /\ queryWrites' <= 1
        /\ \A i \in 1..Len(workers') :
             /\ workers'[i].query = query'
             /\ workers'[i].query # <<>>
             /\ queryWrites' = 1
      ]_vars

\* C9 witness: two insert goroutines started with the one statement built
\* from the header.
C9_Witness ==
    /\ Len(workers) = 2
    /\ queryWrites = 1
    /\ workers[1].query = query /\ workers[2].query = query
    /\ query = parseColumns(variant, ON_DUP_KEYS_UPDATE, input[1])

\* C10: in every reachable state fails <= insertions, and the number of
\* valid insertions reported (insertions - fails) is not negative.
C10_FailsAtMostInsertions ==
    /\ fails <= insertions
    /\ repValid >= 0

\* C10 witness: every outcome counted so far was a failure.
C10_Witness ==
    /\ fails >= 1
    /\ fails = insertions

\* --------------------------------------- the two functions called on their own
\* a record in hand, no goroutine started: what main holds after reader.Read()
InitCall ==
    /\ variant \in Variants
    /\ MAX_SQL_CONNECTIONS = 0
    /\ ON_DUP_KEYS_UPDATE \in (IF variant = "upsert" THEN BOOLEAN ELSE {FALSE})
    /\ input = <<>>
    /\ pos = 0
    /\ record \in Records
    /\ query = <<>>
    /\ isFirstRow = TRUE
    /\ id = IF variant = "plain" THEN 1 ELSE -1
    /\ mainpc = "row"
    /\ mtmp = 0
    /\ available = 0
    /\ callback = <<>>
    /\ connections = 0
    /\ insertions = 0
    /\ fails = 0
    /\ wg = 0
    /\ workers = <<>>
    /\ cpc = "inc"
    /\ cid = 0
    /\ ctmp = 0
    /\ exit = "running"
    /\ repInsertions = 0
    /\ repValid = 0
    /\ queryWrites = 0
    /\ released = 0
    /\ fnPc = "start"
    /\ fnArgs = <<>>

\* args := repalceNULLByDEFAULT(record)
CallReplace ==
    /\ fnPc = "start"
    /\ fnArgs' = repalceNULLByDEFAULT(record)
    /\ fnPc' = "replaced"
    /\ UNCHANGED <<configVars, mainVars, available, callback, connections, insertions,
                   fails, wg, workers, collVars, exit>>

\* parseColumns(record, &query)
CallParseColumns ==
    /\ fnPc = "replaced"
    /\ query' = parseColumns(variant, ON_DUP_KEYS_UPDATE, record)
    /\ fnPc' = "parsed"
    /\ UNCHANGED <<configVars, pos, record, isFirstRow, id, mainpc, mtmp, repInsertions,
                   repValid, queryWrites, available, callback, connections, insertions,
                   fails, wg, workers, collVars, exit, fnArgs>>

NextCall ==
    \/ CallReplace
    \/ CallParseColumns

SpecCall == InitCall /\ [][NextCall]_vars

\* C11: repalceNULLByDEFAULT returns a slice of the record's length whose
\* k-th element is nil exactly when the k-th field is the text NULL and is
\* the field itself otherwise; the record is left as it was.
C11_NullReplacement ==
    [][ fnPc' = "replaced" =>
          /\ Len(fnArgs') = Len(record)
          /\ \A k \in 1..Len(record) :
               /\ fnArgs'[k].isNil <=> record[k] = "NULL"
               /\ record[k] # "NULL" => fnArgs'[k].val = record[k]
          /\ record' = record
      ]_vars

\* C11 witness: a record with the field NULL next to a field that only
\* differs from it in case has been converted.
C11_Witness ==
    /\ fnPc = "replaced"
    /\ \E j, k \in 1..Len(record) : record[j] = "NULL" /\ record[k] = "null"
    /\ \E j, k \in 1..Len(fnArgs) : fnArgs[j].isNil /\ ~fnArgs[k].isNil

\* C12: for a header of k >= 1 columns the statement names exactly those k
\* columns in header order and holds exactly k placeholders; without upsert
\* it ends there, and with upsert (upsert variant, -enable_update) it goes on
\* with one assignment c=VALUES(c) per column, in header order.
C12_StatementShape ==
    fnPc = "parsed" =>
      LET k == Len(record)
          q == query
          upsert == variant = "upsert" /\ ON_DUP_KEYS_UPDATE
      IN  /\ Len(q) = IF upsert THEN 9 * k + 4 ELSE 4 * k + 4
          /\ q[1] = "INSERT INTO " /\ q[2] = TABLENAME /\ q[3] = " ("
          /\ \A j \in 1..k : q[2 + 2 * j] = record[j]
          /\ \A j \in 1..(k - 1) : q[3 + 2 * j] = ", "
          /\ q[2 * k + 3] = ") " /\ q[2 * k + 4] = "VALUES ("
          /\ \A j \in 1..k : q[2 * k + 3 + 2 * j] = "?"
          /\ \A j \in 1..(k - 1) : q[2 * k + 4 + 2 * j] = ", "
          /\ q[4 * k + 4] = ")"
          /\ Cardinality({ n \in (2 * k + 4)..(4 * k + 4) : q[n] = "?" }) = k
          /\ \A n \in 1..(4 * k + 4) : q[n] # "ON DUPLICATE KEY UPDATE "
          /\ upsert =>
               /\ q[4 * k + 5] = "ON DUPLICATE KEY UPDATE "
               /\ \A j \in 1..k :
                    /\ q[4 * k + 1 + 5 * j] = record[j]
                    /\ q[4 * k + 2 + 5 * j] = "=VALUES("
                    /\ q[4 * k + 3 + 5 * j] = record[j]
                    /\ q[4 * k + 4 + 5 * j] = ")"
               /\ \A j \in 2..k : q[4 * k + 5 * j] = ", "

\* C12 witness: a statement with an update clause built from two columns.
C12_Witness ==
    /\ fnPc = "parsed"
    /\ Len(record) = 2 /\ record[1] # record[2]
    /\ variant = "upsert" /\ ON_DUP_KEYS_UPDATE
    /\ Len(query) = 22

\* main has taken a token from `available` for the record it holds and has
\* not started the goroutine yet
MainHoldsToken == mainpc \in {"conn_read", "conn_write", "dispatch"}

\* ids the collector has received from callback
OutcomesReceived == released + (IF CollectorHolds THEN 1 ELSE 0)

\* C13: a token goes back into `available` only in the collector's release
\* step, which follows the counter updates the collector makes for the
\* outcome it received (insertions counts it, the fails test and the
\* decrement of connections are done); every token is in the channel, with
\* main or with a task not yet released, so none is returned twice; and a
\* task is admitted on a returned token only when the outcome released for
\* it is counted in insertions.
C13_TokenReturnedByCollectorAfterRecording ==
    [][ /\ available' > available
            => /\ cpc = "release" /\ cpc' = "inc"
               /\ available' = available + 1
               /\ released' = released + 1
               /\ insertions >= released'
               /\ UNCHANGED <<workers, fails, connections, insertions, mainpc>>
        /\ cpc' = "release" /\ cpc # "release"
            => cpc \in {"check", "dec_write"}
        /\ available' + InFlight' + (IF MainHoldsToken' THEN 1 ELSE 0) = MAX_SQL_CONNECTIONS
        /\ released' <= insertions'
        /\ Len(workers') > Len(workers)
            => Len(workers') <= MAX_SQL_CONNECTIONS + released
      ]_vars

\* C13 witness: a task has been admitted on a token the collector returned.
C13_Witness ==
    /\ MAX_SQL_CONNECTIONS >= 1
    /\ released >= 1
    /\ Len(workers) > MAX_SQL_CONNECTIONS

\* main holds a data record it has read and not yet handed to a goroutine
MainHoldsRecord ==
    \/ mainpc = "row" /\ ~isFirstRow
    \/ MainHoldsToken

\* C14 (as stated): the producer never holds a data record it has read
\* while it waits on the empty channel `available` with every token taken.
C14_NoRecordHeldWhileBlocked ==
    ~( /\ Running
       /\ mainpc = "row" /\ ~isFirstRow
       /\ available = 0
       /\ InFlight = MAX_SQL_CONNECTIONS )

\* C14 (amended): the producer reads one data record, then takes a token for
\* it, and reads no further record before that one is dispatched: the data
\* records read exceed the tasks dispatched by exactly the record main
\* holds, and by at most one.
C14_AtMostOneRecordAhead ==
    /\ DataRecordsRead = Len(workers) + (IF MainHoldsRecord THEN 1 ELSE 0)
    /\ mainpc = "row" /\ ~isFirstRow /\ available = 0 => DataRecordsRead = Len(workers) + 1

\* C14 witness: N >= 1 tasks in flight, no token left, and main waiting with
\* the next data record already read.
C14_Witness ==
    /\ Running
    /\ MAX_SQL_CONNECTIONS >= 1
    /\ mainpc = "row" /\ ~isFirstRow
    /\ available = 0
    /\ Len(workers) >= 1
    /\ DataRecordsRead = Len(workers) + 1
    /\ record = input[pos]

\* C15: the collector increments insertions once per outcome received and
\* at no other time, so insertions never exceeds the outcomes received (nor
\* the tasks dispatched) and is 0 while none has been received.
C15_InsertionsAtMostReceived ==
    /\ insertions <= OutcomesReceived
    /\ insertions <= Len(workers)
    /\ OutcomesReceived = 0 => insertions = 0

\* main has left the read loop at end of stream
PastEOF == mainpc \in {"wait", "drain", "report", "report_valid", "return"}

\* C16: the header starts no goroutine and the i-th data record starts the
\* i-th one, with its own arguments and a sequence number larger than all
\* before it; at end of stream every data record has been dispatched; and
\* once every outcome is processed and the collector waits again, the
\* counters depend only on which outcomes there were, not on their order.
C16_InputOrderDispatch ==
    /\ Len(workers) <= DataRecordsRead
    /\ \A i \in 1..Len(workers) :
         /\ workers[i].args = repalceNULLByDEFAULT(input[i + 1])
         /\ \A j \in 1..(i - 1) : workers[j].id < workers[i].id
    /\ PastEOF => Len(workers) = (IF Len(input) = 0 THEN 0 ELSE Len(input) - 1)
    /\ (AllProcessed /\ cpc = "recv") =>
         /\ insertions = Len(workers) + 1
         /\ fails = Cardinality({ i \in 1..Len(workers) : IsFailure(workers[i].out) })

\* C16 witness: two different records were dispatched and the outcome of the
\* second task is queued in front of the outcome of the first.
C16_Witness ==
    /\ Len(workers) = 2
    /\ workers[1].args # workers[2].args
    /\ Len(callback) = 2
    /\ workers[1].out # workers[2].out
    /\ callback[1] = workers[2].out
    /\ callback[2] = workers[1].out

\* C17: no two goroutines are at once between the read and the write of a
\* read-modify-write of the same counter that is not atomic.
C17_NoConcurrentReadModifyWrite ==
    ~(mainpc = "conn_write" /\ cpc = "dec_write")

\* C18: an insert goroutine that has sent its outcome on callback, or has
\* called wg.Done, holds no open statement.
C18_ClosedBeforeSignal ==
    \A i \in 1..Len(workers) :
        (HasSent(i) \/ workers[i].pc = "end") => ~HoldsStmt(i)

\* C19: each insert goroutine sends one outcome, and sends it before its one
\* wg.Done: the outcomes sent are those of the goroutines past their send,
\* the WaitGroup counter is the number of goroutines that have not called
\* wg.Done and is never negative, and once wg.Wait() has returned the
\* outcomes sent equal the tasks dispatched.
C19_OneOutcomeThenDone ==
    /\ OutcomesSent = Cardinality({ i \in 1..Len(workers) : HasSent(i) })
    /\ wg >= 0
    /\ wg = Cardinality({ i \in 1..Len(workers) : workers[i].pc # "end" })
    /\ \A i \in 1..Len(workers) : workers[i].pc = "end" => HasSent(i)
    /\ mainpc \in {"drain", "report", "report_valid", "return"} =>
         /\ OutcomesSent = Len(workers)
         /\ wg = 0

\* C19 witness: wg.Wait() has returned after two tasks and an outcome is
\* still queued on callback.
C19_Witness ==
    /\ mainpc = "drain"
    /\ Len(workers) = 2
    /\ OutcomesSent = 2
    /\ Len(callback) >= 1

\* ------------------------------------------------------------- scheduling
\* the steps of main, of the i-th insert goroutine and of the collector
MainNext ==
    \/ MainReadEOF \/ MainReadError \/ MainReadRecord \/ MainParseColumns
    \/ MainAcquire \/ MainConnRead \/ MainConnWrite \/ MainDispatch
    \/ MainWait \/ MainDrain \/ MainReportInsertions \/ MainReportValid \/ MainReturn

WorkerNext(i) ==
    /\ i \in 1..Len(workers)
    /\ \/ WorkerAdd(i) \/ WorkerPrepare(i) \/ WorkerPrepareError(i) \/ WorkerExec(i)
       \/ WorkerSub(i) \/ WorkerSend(i) \/ WorkerClose(i) \/ WorkerDone(i)

CollectorNext ==
    \/ CollInc \/ CollRecv \/ CollCheck \/ CollDecRead \/ CollDecWrite \/ CollRelease

\* the Go scheduler runs every goroutine that can run, and every call to the
\* store returns
FairSpec ==
    /\ Spec
    /\ WF_vars(MainNext)
    /\ WF_vars(CollectorNext)
    /\ \A i \in 1..MaxRecords : WF_vars(WorkerNext(i))

\* the reader rejects no line of the input, and there is a data record
WellFormedInput ==
    /\ Len(input) >= 2
    /\ \A n \in 1..Len(input) : ~ReadError(variant, input, n)

\* C20: on a well-formed input with a data record, under fair scheduling
\* and with every store call returning, the run reaches the end of the final
\* report if -conns >= 1, and never does if -conns = 0.
C20_ReportIffTokens ==
    /\ (WellFormedInput /\ MAX_SQL_CONNECTIONS >= 1) ~> (exit = "returned")
    /\ [](WellFormedInput /\ MAX_SQL_CONNECTIONS = 0 => exit # "returned")

====
